---- MODULE Spec2Model ----
(***************************************************************************)
(* Model of the Telegram transcription bot of src/index.js (lines 1-527):  *)
(* the authorization middleware, the start/help/text handlers and the      *)
(* voice, video and video_note pipelines, together with the part of the    *)
(* environment they act on (the temp directory, the clock read by          *)
(* Date.now(), the chat the bot writes to).                                *)
(*                                                                         *)
(* Text is a sequence of tokens: a token is one character of engine or     *)
(* configuration data, or one whole fixed literal of the source.           *)
(***************************************************************************)
EXTENDS Naturals, Sequences, FiniteSets, TLC

VARIABLES
    env,              \* process.env as read at index.js:18, 25, 32
    process,          \* the Node.js process: "starting", "running" or "exited"
    authorizedUsers,  \* index.js:33  the parsed allow-list (array of strings)
    now,              \* the value Date.now() returns
    fs,               \* the paths that exist in tempDir
    pc,               \* per handler instance: where it is
    ctx,              \* per handler instance: the update it handles
    statusMessage,    \* per handler instance: index of the status message in sent, 0 = undefined
    tempFilePath,     \* voice: index.js:95
    tempVideoPath,    \* video / video_note: index.js:164, 344
    tempAudioPath,    \* video / video_note: index.js:165, 345
    whisperResponse,  \* index.js:118, 257, 436: the data of the engine's answer
    transcription,    \* index.js:128, 273, 452
    sent,             \* per handler instance: the messages the chat shows, each with its edit history
    log,              \* per handler instance: the outbound calls made so far, with their outcome
    created           \* per handler instance: the paths it created on disk

vars == <<env, process, authorizedUsers, now, fs, pc, ctx, statusMessage, tempFilePath,
          tempVideoPath, tempAudioPath, whisperResponse, transcription, sent, log,
          created>>

----------------------------------------------------------------------------
(* Bounds of the model *)

MaxReq == 2      \* handler instances that may overlap
MaxUser == 2     \* sender identifiers are 1..MaxUser
MaxClock == 1    \* Date.now() ranges over 0..MaxClock
MaxLen == 1      \* longest engine string spelled out character by character
LongLen == 5000  \* length of the one long engine string
MaxEnvLen == 3   \* longest value of AUTHORIZED_USERS in the check of its parsing

Slots == 1..MaxReq

----------------------------------------------------------------------------
(* JavaScript values *)

Undefined == <<"undefined">>
Null == <<"null">>

Truthy(v) == v # Undefined /\ v # Null /\ v # <<>>

RECURSIVE ToStringNat(_)
\* Number.prototype.toString() of a non-negative integer: its decimal digits
ToStringNat(n) ==
    LET d == <<"0", "1", "2", "3", "4", "5", "6", "7", "8", "9">>[(n % 10) + 1]
    IN  IF n < 10 THEN <<d>> ELSE Append(ToStringNat(n \div 10), d)

IsSpace(c) == c = " "

RECURSIVE Trim(_)
\* String.prototype.trim()
Trim(s) ==
    IF s = <<>> THEN s
    ELSE IF IsSpace(Head(s)) THEN Trim(Tail(s))
    ELSE IF IsSpace(s[Len(s)]) THEN Trim(SubSeq(s, 1, Len(s) - 1))
    ELSE s

RECURSIVE Split(_, _)
\* String.prototype.split(sep) for a one-character separator
Split(s, sep) ==
    IF \A i \in 1..Len(s) : s[i] # sep THEN <<s>>
    ELSE LET i == CHOOSE k \in 1..Len(s) : s[k] = sep /\ \A j \in 1..(k - 1) : s[j] # sep
         IN  <<SubSeq(s, 1, i - 1)>> \o Split(SubSeq(s, i + 1, Len(s)), sep)

RECURSIVE Filter(_)
\* Array.prototype.filter(Boolean) on an array of strings
Filter(a) ==
    IF a = <<>> THEN <<>>
    ELSE (IF Truthy(Head(a)) THEN <<Head(a)>> ELSE <<>>) \o Filter(Tail(a))

Includes(a, v) == \E i \in 1..Len(a) : a[i] = v

\* the parse without the map of line 33: the entries keep their spaces
ParseAuthorizedUsersNoTrim(envValue) ==
    LET authorizedUsersStr == IF Truthy(envValue) THEN envValue ELSE <<>>
    IN  Filter(Split(authorizedUsersStr, ","))

\* index.js:32-33
ParseAuthorizedUsers(envValue) ==
    LET authorizedUsersStr == IF Truthy(envValue) THEN envValue ELSE <<>>
        parts == Split(authorizedUsersStr, ",")
    IN  Filter([i \in 1..Len(parts) |-> Trim(parts[i])])

\* the values of AUTHORIZED_USERS the handlers are run with: unset, one sender, two
\* senders, and an entry that is no sender's identifier
EnvValues == { Undefined, <<"1">>, <<" ", "1", ",", "2">>, <<"0", "1">> }

----------------------------------------------------------------------------
(* Values of AUTHORIZED_USERS for the check of its parsing *)

EnvChars == {"1", " ", ","}

RECURSIVE EnvStringsUpTo(_)
EnvStringsUpTo(n) ==
    IF n = 0 THEN {<<>>}
    ELSE LET shorter == EnvStringsUpTo(n - 1)
         IN  shorter \cup {Append(s, c) : s \in shorter, c \in EnvChars}

EnvStrings == EnvStringsUpTo(MaxEnvLen) \cup {Undefined}

----------------------------------------------------------------------------
(* Fixed texts of the source *)

DeniedText == <<"Sorry, you are not authorized to use this bot.">>
WelcomeText == <<"Welcome! Send me a voice note, and I will transcribe it for you.">>
HintText == <<"Send me a voice note, and I will transcribe it for you!">>

MediaKinds == {"video", "video_note"}
PipelineKinds == {"voice"} \cup MediaKinds

\* index.js:74, 171, 351
ReceivingText(kind) ==
    CASE kind = "voice" -> <<"Receiving your voice note...">>
      [] kind = "video" -> <<"Receiving your video...">>
      [] kind = "video_note" -> <<"Receiving your video note...">>

\* index.js:85, 185, 365
DownloadingText(kind) ==
    CASE kind = "voice" -> <<"Downloading voice note...">>
      [] kind = "video" -> <<"Downloading video...">>
      [] kind = "video_note" -> <<"Downloading video note...">>

\* index.js:219, 398
ExtractingText == <<"Extracting audio...">>

\* index.js:110, 246, 425
TranscribingText(kind) ==
    IF kind = "voice" THEN <<"Transcribing with Shed.Gay Whisper API...">>
    ELSE <<"Transcribing extracted audio with Whisper API...">>

\* index.js:148, 296, 475
CompleteText(kind, t) ==
    CASE kind = "voice" -> <<"Transcription complete! Here's what you said:\n\n">> \o t
      [] kind = "video" -> <<"Transcription complete! Here's the audio from your video:\n\n">> \o t
      [] kind = "video_note" ->
            <<"Transcription complete! Here's the audio from your video note:\n\n">> \o t

\* index.js:157, 328, 332, 507, 511
ErrorText(kind) ==
    CASE kind = "voice" ->
            <<"Sorry, there was an error processing your voice note. Please try again later.">>
      [] kind = "video" ->
            <<"Sorry, there was an error processing your video. Please try again later.">>
      [] kind = "video_note" ->
            <<"Sorry, there was an error processing your video note. Please try again later.">>

NoTranscription == <<"No transcription returned">>
CouldNotParse == <<"Could not parse transcription from API response.">>

----------------------------------------------------------------------------
(* Updates *)

Kinds == {"start", "help", "text", "voice", "video", "video_note", "audio", "document"}

NoCtx == [kind |-> "none", hasFrom |-> FALSE, from_id |-> 0, chat_id |-> 0,
          message_id |-> 0, mime_type |-> Undefined]

\* the mime_type a video message may carry
VideoMimeTypes == {Undefined, <<"video", "/", "webm">>}

\* the mime_type of a document: an audio file, a video file, or neither
DocumentMimeTypes ==
    {<<"audio", "/", "mpeg">>, <<"video", "/", "mp4">>, <<"application", "/", "pdf">>}

MimeTypes == VideoMimeTypes \cup DocumentMimeTypes

\* the updates Telegram may deliver
Updates ==
    { [kind |-> k, hasFrom |-> h, from_id |-> f, chat_id |-> c, message_id |-> 1,
       mime_type |-> m] :
        k \in Kinds, h \in BOOLEAN, f \in 0..MaxUser, c \in Slots, m \in MimeTypes }

WellFormed(u) ==
    /\ u.hasFrom <=> u.from_id > 0
    /\ CASE u.kind = "video" -> u.mime_type \in VideoMimeTypes
         [] u.kind = "document" -> u.mime_type \in DocumentMimeTypes
         [] OTHER -> u.mime_type = Undefined

\* index.js:44
UserId(c) == IF c.hasFrom THEN ToStringNat(c.from_id) ELSE Undefined

\* the allow-list test without the "empty list admits everyone" case
AuthorizedListOnly(c) == Truthy(UserId(c)) /\ Includes(authorizedUsers, UserId(c))

\* index.js:47
Authorized(c) ==
    Len(authorizedUsers) = 0 \/ (Truthy(UserId(c)) /\ Includes(authorizedUsers, UserId(c)))

----------------------------------------------------------------------------
(* Scratch paths *)

\* index.js:95
VoicePath(t) == ToStringNat(t) \o <<".oga">>

\* index.js:196, 376
FileExtension(c) ==
    IF c.kind = "video"
    THEN IF Truthy(c.mime_type) THEN <<".">> \o Split(c.mime_type, "/")[2] ELSE <<".mp4">>
    ELSE <<".mp4">>

\* index.js:166, 346 (message_id is never 0, so the fallback name is not taken)
MessageId(c) == c.message_id

\* index.js:197, 376
VideoPath(t, c) == ToStringNat(t) \o <<"_">> \o ToStringNat(MessageId(c)) \o FileExtension(c)

\* index.js:224, 403
AudioPath(t, c) == ToStringNat(t) \o <<"_">> \o ToStringNat(MessageId(c)) \o <<".mp3">>

IsPath(p) == p # Undefined /\ p # Null

----------------------------------------------------------------------------
(* Engine responses: whisperResponse.data *)

Chars == {"a", " "}

RECURSIVE StringsUpTo(_)
StringsUpTo(n) ==
    IF n = 0 THEN {<<>>}
    ELSE LET shorter == StringsUpTo(n - 1)
         IN  shorter \cup {Append(s, c) : s \in shorter, c \in Chars}

Strings == StringsUpTo(MaxLen)

\* a run of LongLen characters, kept as one token
Block == "[block]"

\* the long transcription
LongString == <<Block>>

\* String.prototype.length: a token is one character, a source literal of several
\* characters, or the block
RECURSIVE TextLen(_)
TextLen(t) ==
    IF t = <<>> THEN 0
    ELSE (IF Head(t) = Block THEN LongLen ELSE Len(Head(t))) + TextLen(Tail(t))

\* the Bot API rejects sendMessage and editMessageText with a text above this length
MessageLimit == 4096

\* a field of a JSON object: a string, or absent
Fields == Strings \cup {Undefined}

\* whisperResponse before the engine has answered
NoResponse == [type |-> "none", val |-> Undefined, text |-> Undefined, result |-> Undefined]

\* a bare string, or an object with optional text and result fields
Responses ==
    [type : {"string"}, val : Strings \cup {LongString}, text : {Undefined}, result : {Undefined}]
    \cup [type : {"object"}, val : {Undefined}, text : Fields, result : Fields]

\* index.js:128-141 (voice)
ParseVoice(data) ==
    IF data.type = "string"
    THEN IF Truthy(data.val) THEN data.val ELSE NoTranscription
    ELSE IF Truthy(data.text) THEN data.text
    ELSE IF Truthy(data.result) THEN data.result
    ELSE NoTranscription

\* the parse without the result branch of lines 280-281
ParseMediaNoResult(data) ==
    IF data.type = "string"
    THEN IF Truthy(data.val) THEN data.val ELSE NoTranscription
    ELSE IF Truthy(data.text) THEN data.text
    ELSE CouldNotParse

\* index.js:273-288, 452-467 (video, video_note)
ParseMedia(data) ==
    IF data.type = "string"
    THEN IF Truthy(data.val) THEN data.val ELSE NoTranscription
    ELSE IF Truthy(data.text) THEN data.text
    ELSE IF Truthy(data.result) THEN data.result
    ELSE CouldNotParse

----------------------------------------------------------------------------
(* Initial state: the process is started, index.js has not run yet *)

\* a variable of the environment holding a credential or an address: unset, empty or set
EnvSecrets == {Undefined, <<>>, <<"s">>}

\* the process starts in one of the environments E
StartIn(E) ==
    /\ env \in E
    /\ process = "starting"
    /\ authorizedUsers = <<>>
    /\ now = 0
    /\ fs = {}
    /\ pc = [r \in Slots |-> "idle"]
    /\ ctx = [r \in Slots |-> NoCtx]
    /\ statusMessage = [r \in Slots |-> 0]
    /\ tempFilePath = [r \in Slots |-> Undefined]
    /\ tempVideoPath = [r \in Slots |-> Undefined]
    /\ tempAudioPath = [r \in Slots |-> Undefined]
    /\ whisperResponse = [r \in Slots |-> NoResponse]
    /\ transcription = [r \in Slots |-> Undefined]
    /\ sent = [r \in Slots |-> <<>>]
    /\ log = [r \in Slots |-> <<>>]
    /\ created = [r \in Slots |-> {}]

Init ==
    StartIn([TELEGRAM_BOT_TOKEN : EnvSecrets, WHISPER_API_URL : EnvSecrets,
             AUTHORIZED_USERS : EnvValues])

----------------------------------------------------------------------------
(* Effects shared by the actions *)

Goto(r, l) == pc' = [pc EXCEPT ![r] = l]

\* what a failing call or program writes into its error: two different outputs
ErrorOutputs == {<<"x">>, <<"y">>}

\* error.message of the rejection of a call: the name of the call and an output
RejectionMessage(op) == <<op, ":", " ", "x">>

\* one settled call as the history keeps it, with the message of its error
Entry(op, text, ok) ==
    [op |-> op, text |-> text, ok |-> ok,
     message |-> IF ok THEN <<>> ELSE RejectionMessage(op)]

\* index.js:225, 404
FfmpegCommand(v, a) ==
    <<"ffmpeg -i \"">> \o v \o <<"\" -vn -acodec libmp3lame -q:a 2 \"">> \o a \o <<"\"">>

\* index.js:229, 235-238: the error of execPromise carries the command line and what
\* ffmpeg wrote to stderr; the handler wraps its message into a new Error
FfmpegErrorMessage(v, a, stderr) ==
    <<"Failed to extract audio: ", "Command failed: ">> \o FfmpegCommand(v, a) \o <<"\n">> \o stderr

FfmpegEntry(v, a, ok, stderr) ==
    [Entry("ffmpeg", a, ok) EXCEPT !.message = IF ok THEN <<>> ELSE FfmpegErrorMessage(v, a, stderr)]

Call(r, op, text, ok) == log' = [log EXCEPT ![r] = Append(@, Entry(op, text, ok))]

Calls2(r, c1, c2) == log' = [log EXCEPT ![r] = @ \o <<c1, c2>>]

\* ctx.reply(text): a new message in the chat, unless the platform rejects the call
Reply(r, text, ok) ==
    /\ ok => TextLen(text) <= MessageLimit
    /\ Call(r, "reply", text, ok)
    /\ sent' = IF ok THEN [sent EXCEPT ![r] = Append(@, <<text>>)] ELSE sent

\* ctx.telegram.editMessageText(chat, statusMessage.message_id, undefined, text)
EditMessageText(r, text, ok) ==
    /\ ok => TextLen(text) <= MessageLimit
    /\ Call(r, "editMessageText", text, ok)
    /\ sent' = IF ok THEN [sent EXCEPT ![r][statusMessage[r]] = Append(@, text)] ELSE sent

InFlight == {r \in Slots : pc[r] \notin {"idle", "returned", "threw"}}

\* positions in the history of request r of the calls of one kind
CallsOf(r, op) == {i \in DOMAIN log[r] : log[r][i].op = op}

----------------------------------------------------------------------------
(* The clock *)

Tick ==
    /\ process = "running"
    /\ now < MaxClock
    /\ now' = now + 1
    /\ UNCHANGED <<env, process, authorizedUsers, fs, pc, ctx, statusMessage, tempFilePath, tempVideoPath,
                   tempAudioPath, whisperResponse, transcription, sent, log, created>>

----------------------------------------------------------------------------
(* The top level of index.js *)

\* index.js:18
token == env.TELEGRAM_BOT_TOKEN

\* index.js:25
whisperApiUrl == env.WHISPER_API_URL

\* the top level with the check of lines 25-29 only: a missing token does not stop it
StartupTokenUnchecked ==
    /\ process = "starting"
    /\ IF ~Truthy(whisperApiUrl)
       THEN /\ process' = "exited"
            /\ UNCHANGED authorizedUsers
       ELSE /\ authorizedUsers' = ParseAuthorizedUsers(env.AUTHORIZED_USERS)
            /\ process' = "running"
    /\ UNCHANGED <<env, now, fs, pc, ctx, statusMessage, tempFilePath, tempVideoPath,
                   tempAudioPath, whisperResponse, transcription, sent, log, created>>

\* index.js:17-41, 521: process.exit(1) when the token or the engine URL is missing;
\* otherwise the allow-list is parsed, the bot is created and launched
Startup ==
    /\ process = "starting"
    /\ IF ~Truthy(token) \/ ~Truthy(whisperApiUrl)
       THEN /\ process' = "exited"
            /\ UNCHANGED authorizedUsers
       ELSE /\ authorizedUsers' = ParseAuthorizedUsers(env.AUTHORIZED_USERS)
            /\ process' = "running"
    /\ UNCHANGED <<env, now, fs, pc, ctx, statusMessage, tempFilePath, tempVideoPath,
                   tempAudioPath, whisperResponse, transcription, sent, log, created>>

----------------------------------------------------------------------------
(* Telegraf hands an update to the middleware chain *)

\* updates arrive only while the launched bot is polling
Dispatch(r, U) ==
    /\ process = "running"
    /\ pc[r] = "idle"
    /\ \A q \in Slots : q < r => pc[q] # "idle"
    /\ \E u \in U :
        /\ WellFormed(u)
        /\ \A q \in Slots :
                pc[q] # "idle" => <<ctx[q].chat_id, ctx[q].message_id>> # <<u.chat_id, u.message_id>>
        /\ ctx' = [ctx EXCEPT ![r] = u]
    /\ Goto(r, "gate")
    /\ UNCHANGED <<env, process, authorizedUsers, now, fs, statusMessage, tempFilePath, tempVideoPath,
                   tempAudioPath, whisperResponse, transcription, sent, log, created>>

\* index.js:56-71, 162, 342: the handler Telegraf runs for an update that passed the gate
HandlerEntry(kind) ==
    CASE kind \in {"start", "help", "text"} -> "simple_reply"
      [] kind = "voice" -> "voice_reply"
      [] kind \in MediaKinds -> "media_entry"
      [] OTHER -> "returned"

\* the middleware with the return of line 52 missing: the denial is sent and the
\* handlers run all the same
GateFallsThrough(r) ==
    /\ pc[r] = "gate"
    /\ IF Authorized(ctx[r])
       THEN /\ Goto(r, HandlerEntry(ctx[r].kind))
            /\ UNCHANGED <<sent, log>>
       ELSE \E ok \in BOOLEAN :
            /\ Reply(r, DeniedText, ok)
            /\ Goto(r, HandlerEntry(ctx[r].kind))
    /\ UNCHANGED <<env, process, authorizedUsers, now, fs, ctx, statusMessage, tempFilePath, tempVideoPath,
                   tempAudioPath, whisperResponse, transcription, created>>

\* index.js:43-53: authorization middleware
Gate(r) ==
    /\ pc[r] = "gate"
    /\ IF Authorized(ctx[r])
       THEN /\ Goto(r, HandlerEntry(ctx[r].kind))
            /\ UNCHANGED <<sent, log>>
       ELSE \E ok \in BOOLEAN :
            /\ Reply(r, DeniedText, ok)
            /\ Goto(r, IF ok THEN "returned" ELSE "threw")
    /\ UNCHANGED <<env, process, authorizedUsers, now, fs, ctx, statusMessage, tempFilePath, tempVideoPath,
                   tempAudioPath, whisperResponse, transcription, created>>

\* index.js:56-68: start, help and text handlers (the reply is not awaited)
SimpleReply(r) ==
    /\ pc[r] = "simple_reply"
    /\ \E ok \in BOOLEAN :
        Reply(r, IF ctx[r].kind = "start" THEN WelcomeText ELSE HintText, ok)
    /\ Goto(r, "returned")
    /\ UNCHANGED <<env, process, authorizedUsers, now, fs, ctx, statusMessage, tempFilePath, tempVideoPath,
                   tempAudioPath, whisperResponse, transcription, created>>

----------------------------------------------------------------------------
(* bot.on('voice'): index.js:71-159.  Each action is one awaited call with   *)
(* its outcome, followed by the synchronous code up to the next call.        *)

\* index.js:74
VoiceReply(r) ==
    /\ pc[r] = "voice_reply"
    /\ \E ok \in BOOLEAN :
        /\ Reply(r, ReceivingText("voice"), ok)
        /\ statusMessage' = IF ok THEN [statusMessage EXCEPT ![r] = Len(sent[r]) + 1]
                            ELSE statusMessage
        /\ Goto(r, IF ok THEN "voice_getFileLink" ELSE "voice_catch")
    /\ UNCHANGED <<env, process, authorizedUsers, now, fs, ctx, tempFilePath, tempVideoPath, tempAudioPath,
                   whisperResponse, transcription, created>>

\* index.js:77-78
VoiceGetFileLink(r) ==
    /\ pc[r] = "voice_getFileLink"
    /\ \E ok \in BOOLEAN :
        /\ Call(r, "getFileLink", <<>>, ok)
        /\ Goto(r, IF ok THEN "voice_editDownloading" ELSE "voice_catch")
    /\ UNCHANGED <<env, process, authorizedUsers, now, fs, ctx, statusMessage, tempFilePath, tempVideoPath,
                   tempAudioPath, whisperResponse, transcription, sent, created>>

\* index.js:81-86
VoiceEditDownloading(r) ==
    /\ pc[r] = "voice_editDownloading"
    /\ \E ok \in BOOLEAN :
        /\ EditMessageText(r, DownloadingText("voice"), ok)
        /\ Goto(r, IF ok THEN "voice_download" ELSE "voice_catch")
    /\ UNCHANGED <<env, process, authorizedUsers, now, fs, ctx, statusMessage, tempFilePath, tempVideoPath,
                   tempAudioPath, whisperResponse, transcription, created>>

\* index.js:89-93
VoiceDownload(r) ==
    /\ pc[r] = "voice_download"
    /\ \E ok \in BOOLEAN :
        /\ Call(r, "download", <<>>, ok)
        /\ Goto(r, IF ok THEN "voice_write" ELSE "voice_catch")
    /\ UNCHANGED <<env, process, authorizedUsers, now, fs, ctx, statusMessage, tempFilePath, tempVideoPath,
                   tempAudioPath, whisperResponse, transcription, sent, created>>

\* the wait of lines 100-103 without the 'error' listener: a failed write goes on
VoiceWriteErrorIgnored(r) ==
    /\ pc[r] = "voice_write"
    /\ LET p == VoicePath(now) IN
       \E ok \in BOOLEAN, onDisk \in BOOLEAN :
        /\ ok => onDisk
        /\ tempFilePath' = [tempFilePath EXCEPT ![r] = p]
        /\ fs' = IF onDisk THEN fs \cup {p} ELSE fs
        /\ created' = IF onDisk THEN [created EXCEPT ![r] = @ \cup {p}] ELSE created
        /\ Call(r, "write", p, ok)
        /\ Goto(r, "voice_editTranscribing")
    /\ UNCHANGED <<env, process, authorizedUsers, now, ctx, statusMessage, tempVideoPath, tempAudioPath,
                   whisperResponse, transcription, sent>>

\* index.js:95-103: the stream creates the file; a write error may leave a partial file
VoiceWrite(r) ==
    /\ pc[r] = "voice_write"
    /\ LET p == VoicePath(now) IN
       \E ok \in BOOLEAN, onDisk \in BOOLEAN :
        /\ ok => onDisk
        /\ tempFilePath' = [tempFilePath EXCEPT ![r] = p]
        /\ fs' = IF onDisk THEN fs \cup {p} ELSE fs
        /\ created' = IF onDisk THEN [created EXCEPT ![r] = @ \cup {p}] ELSE created
        /\ Call(r, "write", p, ok)
        /\ Goto(r, IF ok THEN "voice_editTranscribing" ELSE "voice_catch")
    /\ UNCHANGED <<env, process, authorizedUsers, now, ctx, statusMessage, tempVideoPath, tempAudioPath,
                   whisperResponse, transcription, sent>>

\* the second status edit of the voice handler showing the downloading text again
VoiceEditTranscribingStale(r) ==
    /\ pc[r] = "voice_editTranscribing"
    /\ \E ok \in BOOLEAN :
        /\ EditMessageText(r, DownloadingText("voice"), ok)
        /\ Goto(r, IF ok THEN "voice_post" ELSE "voice_catch")
    /\ UNCHANGED <<env, process, authorizedUsers, now, fs, ctx, statusMessage, tempFilePath, tempVideoPath,
                   tempAudioPath, whisperResponse, transcription, created>>

\* index.js:106-111
VoiceEditTranscribing(r) ==
    /\ pc[r] = "voice_editTranscribing"
    /\ \E ok \in BOOLEAN :
        /\ EditMessageText(r, TranscribingText("voice"), ok)
        /\ Goto(r, IF ok THEN "voice_post" ELSE "voice_catch")
    /\ UNCHANGED <<env, process, authorizedUsers, now, fs, ctx, statusMessage, tempFilePath, tempVideoPath,
                   tempAudioPath, whisperResponse, transcription, created>>

\* index.js:114-141: the upload reads the scratch file; after the engine answers the
\* file is unlinked (unlinkSync throws when the file is missing or cannot be removed)
\* and the answer is parsed
\* axios.post is given no timeout (117-122) and axios has none of its own: while the
\* engine keeps the connection open without answering, the await never settles, which
\* is the state voice_postPending, left by no action
VoicePost(r, R) ==
    /\ pc[r] = "voice_post"
    /\ LET p == tempFilePath[r] IN
       \/ /\ Call(r, "post", p, FALSE)
          /\ Goto(r, "voice_catch")
          /\ UNCHANGED <<fs, whisperResponse, transcription>>
       \/ /\ Goto(r, "voice_postPending")
          /\ UNCHANGED <<fs, whisperResponse, transcription, log>>
       \/ /\ p \in fs
          /\ \E data \in R, unlinked \in BOOLEAN :
              /\ whisperResponse' = [whisperResponse EXCEPT ![r] = data]
              /\ Calls2(r, Entry("post", p, TRUE), Entry("unlinkSync", p, unlinked))
              /\ IF unlinked
                 THEN /\ fs' = fs \ {p}
                      /\ transcription' = [transcription EXCEPT ![r] = ParseVoice(data)]
                      /\ Goto(r, "voice_finalEdit")
                 ELSE /\ Goto(r, "voice_catch")
                      /\ UNCHANGED <<fs, transcription>>
    /\ UNCHANGED <<env, process, authorizedUsers, now, ctx, statusMessage, tempFilePath, tempVideoPath,
                   tempAudioPath, sent, created>>

\* index.js:144-149
VoiceFinalEdit(r) ==
    /\ pc[r] = "voice_finalEdit"
    /\ \E ok \in BOOLEAN :
        /\ EditMessageText(r, CompleteText("voice", transcription[r]), ok)
        /\ Goto(r, IF ok THEN "returned" ELSE "voice_catch")
    /\ UNCHANGED <<env, process, authorizedUsers, now, fs, ctx, statusMessage, tempFilePath, tempVideoPath,
                   tempAudioPath, whisperResponse, transcription, created>>

\* index.js:151-158: the catch block; a rejected reply leaves the handler as a rejection
VoiceCatch(r) ==
    /\ pc[r] = "voice_catch"
    /\ \E ok \in BOOLEAN :
        /\ Reply(r, ErrorText("voice"), ok)
        /\ Goto(r, IF ok THEN "returned" ELSE "threw")
    /\ UNCHANGED <<env, process, authorizedUsers, now, fs, ctx, statusMessage, tempFilePath, tempVideoPath,
                   tempAudioPath, whisperResponse, transcription, created>>

----------------------------------------------------------------------------
(* bot.on('video'): index.js:162-339 and bot.on('video_note'): index.js:342-518. *)
(* The two handlers are the same code up to the fixed texts and the extension    *)
(* of the downloaded file, which FileExtension and the text operators select by  *)
(* ctx.kind.                                                                     *)

\* index.js:166-167, 346-347: ctx.from.id is read before the try block
MediaEntry(r) ==
    /\ pc[r] = "media_entry"
    /\ Goto(r, IF ctx[r].hasFrom THEN "media_reply" ELSE "threw")
    /\ UNCHANGED <<env, process, authorizedUsers, now, fs, ctx, statusMessage, tempFilePath, tempVideoPath,
                   tempAudioPath, whisperResponse, transcription, sent, log, created>>

\* index.js:171, 351
MediaReply(r) ==
    /\ pc[r] = "media_reply"
    /\ \E ok \in BOOLEAN :
        /\ Reply(r, ReceivingText(ctx[r].kind), ok)
        /\ statusMessage' = IF ok THEN [statusMessage EXCEPT ![r] = Len(sent[r]) + 1]
                            ELSE statusMessage
        /\ Goto(r, IF ok THEN "media_getFileLink" ELSE "media_catch")
    /\ UNCHANGED <<env, process, authorizedUsers, now, fs, ctx, tempFilePath, tempVideoPath, tempAudioPath,
                   whisperResponse, transcription, created>>

\* index.js:175-177, 355-357
MediaGetFileLink(r) ==
    /\ pc[r] = "media_getFileLink"
    /\ \E ok \in BOOLEAN :
        /\ Call(r, "getFileLink", <<>>, ok)
        /\ Goto(r, IF ok THEN "media_editDownloading" ELSE "media_catch")
    /\ UNCHANGED <<env, process, authorizedUsers, now, fs, ctx, statusMessage, tempFilePath, tempVideoPath,
                   tempAudioPath, whisperResponse, transcription, sent, created>>

\* index.js:181-186, 361-366
MediaEditDownloading(r) ==
    /\ pc[r] = "media_editDownloading"
    /\ \E ok \in BOOLEAN :
        /\ EditMessageText(r, DownloadingText(ctx[r].kind), ok)
        /\ Goto(r, IF ok THEN "media_download" ELSE "media_catch")
    /\ UNCHANGED <<env, process, authorizedUsers, now, fs, ctx, statusMessage, tempFilePath, tempVideoPath,
                   tempAudioPath, whisperResponse, transcription, created>>

\* the download wrapped in a retry: a first failure requests the file once more
MediaDownloadRetried(r) ==
    /\ pc[r] = "media_download"
    /\ \E ok \in BOOLEAN :
        /\ Call(r, "download", <<>>, ok)
        /\ Goto(r, IF ok THEN "media_write"
                   ELSE IF CallsOf(r, "download") = {} THEN "media_download"
                   ELSE "media_catch")
    /\ UNCHANGED <<env, process, authorizedUsers, now, fs, ctx, statusMessage, tempFilePath, tempVideoPath,
                   tempAudioPath, whisperResponse, transcription, sent, created>>

\* index.js:190-194, 370-374
MediaDownload(r) ==
    /\ pc[r] = "media_download"
    /\ \E ok \in BOOLEAN :
        /\ Call(r, "download", <<>>, ok)
        /\ Goto(r, IF ok THEN "media_write" ELSE "media_catch")
    /\ UNCHANGED <<env, process, authorizedUsers, now, fs, ctx, statusMessage, tempFilePath, tempVideoPath,
                   tempAudioPath, whisperResponse, transcription, sent, created>>

\* index.js:196-212, 376-391
MediaWrite(r) ==
    /\ pc[r] = "media_write"
    /\ LET p == VideoPath(now, ctx[r]) IN
       \E ok \in BOOLEAN, onDisk \in BOOLEAN :
        /\ ok => onDisk
        /\ tempVideoPath' = [tempVideoPath EXCEPT ![r] = p]
        /\ fs' = IF onDisk THEN fs \cup {p} ELSE fs
        /\ created' = IF onDisk THEN [created EXCEPT ![r] = @ \cup {p}] ELSE created
        /\ Call(r, "write", p, ok)
        /\ Goto(r, IF ok THEN "media_editExtracting" ELSE "media_catch")
    /\ UNCHANGED <<env, process, authorizedUsers, now, ctx, statusMessage, tempFilePath, tempAudioPath,
                   whisperResponse, transcription, sent>>

\* index.js:215-220, 394-399
MediaEditExtracting(r) ==
    /\ pc[r] = "media_editExtracting"
    /\ \E ok \in BOOLEAN :
        /\ EditMessageText(r, ExtractingText, ok)
        /\ Goto(r, IF ok THEN "media_ffmpeg" ELSE "media_catch")
    /\ UNCHANGED <<env, process, authorizedUsers, now, fs, ctx, statusMessage, tempFilePath, tempVideoPath,
                   tempAudioPath, whisperResponse, transcription, created>>

\* the ffmpeg step with the rethrow of line 238 missing: a failed run goes on to the engine
MediaFfmpegErrorIgnored(r) ==
    /\ pc[r] = "media_ffmpeg"
    /\ LET a == AudioPath(now, ctx[r]) IN
       \E ok \in BOOLEAN, onDisk \in BOOLEAN :
        /\ ok => (onDisk /\ tempVideoPath[r] \in fs /\ a \notin fs)
        /\ onDisk => tempVideoPath[r] \in fs
        /\ tempAudioPath' = [tempAudioPath EXCEPT ![r] = a]
        /\ fs' = IF onDisk THEN fs \cup {a} ELSE fs
        /\ created' = IF onDisk /\ a \notin fs THEN [created EXCEPT ![r] = @ \cup {a}]
                      ELSE created
        /\ \E stderr \in IF ok THEN {<<>>} ELSE ErrorOutputs :
                log' = [log EXCEPT ![r] = Append(@, FfmpegEntry(tempVideoPath[r], a, ok, stderr))]
        /\ Goto(r, "media_editTranscribing")
    /\ UNCHANGED <<env, process, authorizedUsers, now, ctx, statusMessage, tempFilePath, tempVideoPath,
                   whisperResponse, transcription, sent>>

\* index.js:224-239, 403-418: ffmpeg reads the video and writes the audio; it is run
\* without -y, so it refuses an output that exists; a failed run may leave a partial output
MediaFfmpeg(r) ==
    /\ pc[r] = "media_ffmpeg"
    /\ LET a == AudioPath(now, ctx[r]) IN
       \E ok \in BOOLEAN, onDisk \in BOOLEAN :
        /\ ok => (onDisk /\ tempVideoPath[r] \in fs /\ a \notin fs)
        /\ onDisk => tempVideoPath[r] \in fs
        /\ tempAudioPath' = [tempAudioPath EXCEPT ![r] = a]
        /\ fs' = IF onDisk THEN fs \cup {a} ELSE fs
        /\ created' = IF onDisk /\ a \notin fs THEN [created EXCEPT ![r] = @ \cup {a}]
                      ELSE created
        /\ \E stderr \in IF ok THEN {<<>>} ELSE ErrorOutputs :
                log' = [log EXCEPT ![r] = Append(@, FfmpegEntry(tempVideoPath[r], a, ok, stderr))]
        /\ Goto(r, IF ok THEN "media_editTranscribing" ELSE "media_catch")
    /\ UNCHANGED <<env, process, authorizedUsers, now, ctx, statusMessage, tempFilePath, tempVideoPath,
                   whisperResponse, transcription, sent>>

\* index.js:242-247, 421-426
MediaEditTranscribing(r) ==
    /\ pc[r] = "media_editTranscribing"
    /\ \E ok \in BOOLEAN :
        /\ EditMessageText(r, TranscribingText(ctx[r].kind), ok)
        /\ Goto(r, IF ok THEN "media_post" ELSE "media_catch")
    /\ UNCHANGED <<env, process, authorizedUsers, now, fs, ctx, statusMessage, tempFilePath, tempVideoPath,
                   tempAudioPath, whisperResponse, transcription, created>>

\* the engine call without the cleanup of lines 264-270: the files are left to whoever
\* comes later
MediaPostNoCleanup(r, R) ==
    /\ pc[r] = "media_post"
    /\ LET a == tempAudioPath[r] IN
       \/ /\ Call(r, "post", a, FALSE)
          /\ Goto(r, "media_catch")
          /\ UNCHANGED <<whisperResponse, transcription>>
       \/ /\ Goto(r, "media_postPending")
          /\ UNCHANGED <<whisperResponse, transcription, log>>
       \/ /\ a \in fs
          /\ \E data \in R :
              /\ whisperResponse' = [whisperResponse EXCEPT ![r] = data]
              /\ Call(r, "post", a, TRUE)
              /\ transcription' = [transcription EXCEPT ![r] = ParseMedia(data)]
              /\ Goto(r, "media_finalEdit")
    /\ UNCHANGED <<env, process, authorizedUsers, now, fs, ctx, statusMessage, tempFilePath,
                   tempVideoPath, tempAudioPath, sent, created>>

\* index.js:251-288, 430-467: upload of the audio, then the two unlinkSync calls
\* (each path is set to null only after its unlink returned), then the parse
\* as in the voice handler the post has no timeout (257-261, 436-440): media_postPending
\* is the await that never settles
MediaPost(r, R) ==
    /\ pc[r] = "media_post"
    /\ LET a == tempAudioPath[r]
           v == tempVideoPath[r]
           post(ok) == Entry("post", a, ok)
           unlink(p, ok) == Entry("unlinkSync", p, ok)
       IN
       \/ /\ Call(r, "post", a, FALSE)
          /\ Goto(r, "media_catch")
          /\ UNCHANGED <<fs, whisperResponse, transcription, tempAudioPath, tempVideoPath>>
       \/ /\ Goto(r, "media_postPending")
          /\ UNCHANGED <<fs, whisperResponse, transcription, tempAudioPath, tempVideoPath, log>>
       \/ /\ a \in fs
          /\ \E data \in R :
              /\ whisperResponse' = [whisperResponse EXCEPT ![r] = data]
              /\ \/ /\ Calls2(r, post(TRUE), unlink(a, FALSE))
                    /\ Goto(r, "media_catch")
                    /\ UNCHANGED <<fs, transcription, tempAudioPath, tempVideoPath>>
                 \/ /\ log' = [log EXCEPT ![r] = @ \o <<post(TRUE), unlink(a, TRUE), unlink(v, FALSE)>>]
                    /\ fs' = fs \ {a}
                    /\ tempAudioPath' = [tempAudioPath EXCEPT ![r] = Null]
                    /\ Goto(r, "media_catch")
                    /\ UNCHANGED <<transcription, tempVideoPath>>
                 \/ /\ v \in fs
                    /\ log' = [log EXCEPT ![r] = @ \o <<post(TRUE), unlink(a, TRUE), unlink(v, TRUE)>>]
                    /\ fs' = fs \ {a, v}
                    /\ tempAudioPath' = [tempAudioPath EXCEPT ![r] = Null]
                    /\ tempVideoPath' = [tempVideoPath EXCEPT ![r] = Null]
                    /\ transcription' = [transcription EXCEPT ![r] = ParseMedia(data)]
                    /\ Goto(r, "media_finalEdit")
    /\ UNCHANGED <<env, process, authorizedUsers, now, ctx, statusMessage, tempFilePath, sent, created>>

\* index.js:292-297, 471-476
MediaFinalEdit(r) ==
    /\ pc[r] = "media_finalEdit"
    /\ \E ok \in BOOLEAN :
        /\ EditMessageText(r, CompleteText(ctx[r].kind, transcription[r]), ok)
        /\ Goto(r, IF ok THEN "returned" ELSE "media_catch")
    /\ UNCHANGED <<env, process, authorizedUsers, now, fs, ctx, statusMessage, tempFilePath, tempVideoPath,
                   tempAudioPath, whisperResponse, transcription, created>>

\* the catch block showing the user the caught error: the fixed text followed by
\* error.message
MediaCatchWithMessage(r) ==
    /\ pc[r] = "media_catch"
    /\ LET a == tempAudioPath[r]
           v == tempVideoPath[r]
           tryA == IsPath(a) /\ a \in fs
           tryV == IsPath(v) /\ v \in fs
       IN
       \E okA \in BOOLEAN, okV \in BOOLEAN, ok \in BOOLEAN :
        /\ okA => tryA
        /\ okV => tryV
        /\ fs' = (fs \ (IF okA THEN {a} ELSE {})) \ (IF okV THEN {v} ELSE {})
        /\ LET logA == IF tryA THEN <<Entry("unlinkSync", a, okA)>> ELSE <<>>
               logV == IF tryV THEN <<Entry("unlinkSync", v, okV)>> ELSE <<>>
               text == ErrorText(ctx[r].kind) \o log[r][Len(log[r])].message
           IN
           IF statusMessage[r] # 0
           THEN /\ log' = [log EXCEPT ![r] = @ \o logA \o logV
                                \o <<Entry("editMessageText", text, ok)>>]
                /\ sent' = IF ok THEN [sent EXCEPT ![r][statusMessage[r]] = Append(@, text)]
                           ELSE sent
           ELSE /\ log' = [log EXCEPT ![r] = @ \o logA \o logV
                                \o <<Entry("reply", text, ok)>>]
                /\ sent' = IF ok THEN [sent EXCEPT ![r] = Append(@, <<text>>)] ELSE sent
    /\ Goto(r, "returned")
    /\ UNCHANGED <<env, process, authorizedUsers, now, ctx, statusMessage, tempFilePath, tempVideoPath,
                   tempAudioPath, whisperResponse, transcription, created>>

\* the catch block without the cleanup of lines 311-319: only the notification
MediaCatchNoCleanup(r) ==
    /\ pc[r] = "media_catch"
    /\ \E ok \in BOOLEAN :
        IF statusMessage[r] # 0
        THEN EditMessageText(r, ErrorText(ctx[r].kind), ok)
        ELSE Reply(r, ErrorText(ctx[r].kind), ok)
    /\ Goto(r, "returned")
    /\ UNCHANGED <<env, process, authorizedUsers, now, fs, ctx, statusMessage, tempFilePath, tempVideoPath,
                   tempAudioPath, whisperResponse, transcription, created>>

\* index.js:300-338, 479-517: the catch block: guarded cleanup of both paths, then the
\* error is shown in the status message, or in a new reply when there is none
MediaCatch(r) ==
    /\ pc[r] = "media_catch"
    /\ LET a == tempAudioPath[r]
           v == tempVideoPath[r]
           tryA == IsPath(a) /\ a \in fs
           tryV == IsPath(v) /\ v \in fs
       IN
       \E okA \in BOOLEAN, okV \in BOOLEAN, ok \in BOOLEAN :
        /\ okA => tryA
        /\ okV => tryV
        /\ fs' = (fs \ (IF okA THEN {a} ELSE {})) \ (IF okV THEN {v} ELSE {})
        /\ LET logA == IF tryA THEN <<Entry("unlinkSync", a, okA)>> ELSE <<>>
               logV == IF tryV THEN <<Entry("unlinkSync", v, okV)>> ELSE <<>>
               text == ErrorText(ctx[r].kind)
           IN
           IF statusMessage[r] # 0
           THEN /\ log' = [log EXCEPT ![r] = @ \o logA \o logV
                                \o <<Entry("editMessageText", text, ok)>>]
                /\ sent' = IF ok THEN [sent EXCEPT ![r][statusMessage[r]] = Append(@, text)]
                           ELSE sent
           ELSE /\ log' = [log EXCEPT ![r] = @ \o logA \o logV
                                \o <<Entry("reply", text, ok)>>]
                /\ sent' = IF ok THEN [sent EXCEPT ![r] = Append(@, <<text>>)] ELSE sent
    /\ Goto(r, "returned")
    /\ UNCHANGED <<env, process, authorizedUsers, now, ctx, statusMessage, tempFilePath, tempVideoPath,
                   tempAudioPath, whisperResponse, transcription, created>>

----------------------------------------------------------------------------
(* Specifications *)

Step(r, R) ==
    \/ Gate(r)
    \/ SimpleReply(r)
    \/ VoiceReply(r)
    \/ VoiceGetFileLink(r)
    \/ VoiceEditDownloading(r)
    \/ VoiceDownload(r)
    \/ VoiceWrite(r)
    \/ VoiceEditTranscribing(r)
    \/ VoicePost(r, R)
    \/ VoiceFinalEdit(r)
    \/ VoiceCatch(r)
    \/ MediaEntry(r)
    \/ MediaReply(r)
    \/ MediaGetFileLink(r)
    \/ MediaEditDownloading(r)
    \/ MediaDownload(r)
    \/ MediaWrite(r)
    \/ MediaEditExtracting(r)
    \/ MediaFfmpeg(r)
    \/ MediaEditTranscribing(r)
    \/ MediaPost(r, R)
    \/ MediaFinalEdit(r)
    \/ MediaCatch(r)

\* one update, with every sender, kind, engine answer and failure
Next ==
    \/ Startup
    \/ Tick
    \/ Dispatch(1, Updates)
    \/ Step(1, Responses)

Spec == Init /\ [][Next]_vars

\* the event loop resumes a handler as soon as the call it awaits has settled
FairSpec == Spec /\ WF_vars(Step(1, Responses))

\* overlapping handlers: Telegraf starts a handler per update without waiting for
\* the previous one; senders and engine answers are cut down to one of each shape
ConcUpdates == {u \in Updates : u.kind \in PipelineKinds \cup {"text"} /\ u.from_id = 1}

ConcResponses ==
    { [type |-> "string", val |-> <<"a">>, text |-> Undefined, result |-> Undefined] }

InitConc ==
    StartIn({[TELEGRAM_BOT_TOKEN |-> <<"s">>, WHISPER_API_URL |-> <<"s">>,
              AUTHORIZED_USERS |-> Undefined]})

NextConc ==
    \/ Startup
    \/ Tick
    \/ \E r \in Slots : Dispatch(r, ConcUpdates)
    \/ \E r \in Slots : Step(r, ConcResponses)

SpecConc == InitConc /\ [][NextConc]_vars

\* the allow-list and the gate alone, for every short value of AUTHORIZED_USERS and a
\* text message of every sender
ParseUpdates == {u \in Updates : u.kind = "text" /\ u.chat_id = 1}

InitParse ==
    StartIn([TELEGRAM_BOT_TOKEN : {<<"s">>}, WHISPER_API_URL : {<<"s">>},
             AUTHORIZED_USERS : EnvStrings])

NextParse ==
    \/ Startup
    \/ Dispatch(1, ParseUpdates)
    \/ Gate(1)
    \/ SimpleReply(1)

SpecParse == InitParse /\ [][NextParse]_vars

----------------------------------------------------------------------------
(* Vocabulary of the properties *)

Last(q) == q[Len(q)]

Handled == {r \in Slots : pc[r] \notin {"idle", "gate"}}

Denied(r) == log[r] # <<>> /\ log[r][1].op = "reply" /\ log[r][1].text = DeniedText

Done(r) == pc[r] \in {"returned", "threw"}

\* the update passed the gate and its voice, video or video_note handler was started
IsPipeline(r) == r \in Handled /\ ctx[r].kind \in PipelineKinds /\ ~Denied(r)

\* the allow-list test as the documentation words it (README.md:21-22)
AllowListEmpty == authorizedUsers = <<>>

SenderListed(c) ==
    /\ c.hasFrom
    /\ \E i \in DOMAIN authorizedUsers : authorizedUsers[i] = ToStringNat(c.from_id)

\* the edit history of the status message, empty while there is none
StatusHistory(r) == IF statusMessage[r] = 0 THEN <<>> ELSE sent[r][statusMessage[r]]

PhaseOf(kind, text) ==
    CASE text = ReceivingText(kind) -> "receiving"
      [] text = DownloadingText(kind) -> "downloading"
      [] text = ExtractingText -> "extracting"
      [] text = TranscribingText(kind) -> "transcribing"
      [] text # <<>> /\ Head(text) = Head(CompleteText(kind, <<>>)) -> "done"
      [] OTHER -> "error"

ExpectedPhases(kind) ==
    IF kind \in MediaKinds
    THEN <<"receiving", "downloading", "extracting", "transcribing", "done">>
    ELSE <<"receiving", "downloading", "transcribing", "done">>

Succeeded(r) ==
    /\ pc[r] = "returned"
    /\ log[r] # <<>>
    /\ Last(log[r]).op = "editMessageText"
    /\ Last(log[r]).ok
    /\ PhaseOf(ctx[r].kind, Last(log[r]).text) = "done"

FailedCalls(r) == {i \in DOMAIN log[r] : ~log[r][i].ok}

Paths(r) == {p \in {tempFilePath[r], tempVideoPath[r], tempAudioPath[r]} : IsPath(p)}

Parsed(r) == IF ctx[r].kind = "voice" THEN ParseVoice(whisperResponse[r])
             ELSE ParseMedia(whisperResponse[r])

----------------------------------------------------------------------------
(* C1: when a voice, video or video_note handler has finished, successfully  *)
(* or not, none of the scratch files it created is left in the temp          *)
(* directory.                                                                *)
C1_NoScratchFileLeft ==
    \A r \in Slots : (IsPipeline(r) /\ Done(r)) => created[r] \cap fs = {}

(* C2: an update passes the gate exactly when the allow-list is empty or the *)
(* sender is present and its decimal string is an entry of the list.         *)
C2_GateIff ==
    \A r \in Handled : ~Denied(r) <=> (AllowListEmpty \/ SenderListed(ctx[r]))

C2_Witness ==
    \E r \in Handled :
        /\ ~AllowListEmpty
        /\ SenderListed(ctx[r])
        /\ ~Denied(r)
        /\ log[r] # <<>>

(* C3: with a non-empty allow-list, an update of any kind from a sender not  *)
(* in it leads to exactly one outbound call, the denial reply, and to        *)
(* nothing else: no status message, no file link, no download, no scratch    *)
(* file; the chat shows the denial and nothing more.                         *)
C3_DeniedOnly ==
    \A r \in Handled :
        (~AllowListEmpty /\ ~SenderListed(ctx[r])) =>
            /\ Done(r)
            /\ Len(log[r]) = 1
            /\ log[r][1].op = "reply"
            /\ log[r][1].text = DeniedText
            /\ sent[r] = IF log[r][1].ok THEN <<<<DeniedText>>>> ELSE <<>>
            /\ statusMessage[r] = 0
            /\ created[r] = {}
            /\ Paths(r) = {}

C3_Witness ==
    \E r \in Handled :
        /\ ~AllowListEmpty
        /\ ~SenderListed(ctx[r])
        /\ ctx[r].kind = "video"
        /\ sent[r] = <<<<DeniedText>>>>

(* C4: in a video or video_note request every engine call comes after an     *)
(* ffmpeg run that returned successfully; in a voice request ffmpeg is never *)
(* run.                                                                      *)
C4_FfmpegBeforeEngine ==
    \A r \in Slots :
        /\ ctx[r].kind \in MediaKinds =>
              \A i \in DOMAIN log[r] :
                  log[r][i].op = "post" =>
                      \E j \in 1..(i - 1) : log[r][j].op = "ffmpeg" /\ log[r][j].ok
        /\ ctx[r].kind = "voice" =>
              \A i \in DOMAIN log[r] : log[r][i].op # "ffmpeg"

C4_Witness ==
    \E r \in Slots :
        /\ ctx[r].kind = "video_note"
        /\ \E i \in DOMAIN log[r] : log[r][i].op = "post" /\ log[r][i].ok

(* C5: the status message is created once, and the phases it shows are a     *)
(* prefix of receiving, downloading, extracting (video and video_note only), *)
(* transcribing, done, in that order and without repetition; a successful    *)
(* run shows all of them.                                                    *)
C5_PhasesForward ==
    \A r \in Slots :
        IsPipeline(r) =>
            LET k == ctx[r].kind
                h == StatusHistory(r)
                shown == {i \in DOMAIN h : PhaseOf(k, h[i]) # "error"}
                n == Cardinality(shown)
            IN  /\ Cardinality({i \in DOMAIN log[r] :
                        log[r][i].op = "reply" /\ log[r][i].text = ReceivingText(k)}) <= 1
                /\ shown = 1..n
                /\ n <= Len(ExpectedPhases(k))
                /\ \A i \in 1..n : PhaseOf(k, h[i]) = ExpectedPhases(k)[i]
                /\ Succeeded(r) => n = Len(ExpectedPhases(k))

C5_Witness ==
    \E r \in Slots :
        /\ ctx[r].kind = "video"
        /\ Succeeded(r)
        /\ Len(StatusHistory(r)) = 5

(* C6: once the status message exists, a failure is reported by editing that *)
(* message and no further message is sent; a new reply carries the error     *)
(* only when there is no status message.                                     *)
C6_ErrorEditsStatus ==
    \A r \in Slots :
        (IsPipeline(r) /\ Done(r) /\ FailedCalls(r) # {}) =>
            IF statusMessage[r] # 0
            THEN /\ Len(sent[r]) = 1
                 /\ Last(log[r]).op = "editMessageText"
                 /\ Last(log[r]).text = ErrorText(ctx[r].kind)
            ELSE /\ Last(log[r]).op = "reply"
                 /\ Last(log[r]).text = ErrorText(ctx[r].kind)

(* C7: whatever call fails, the error report included, a voice, video or     *)
(* video_note handler finishes normally.                                     *)
C7_NothingEscapes ==
    \A r \in Slots : (IsPipeline(r) /\ FailedCalls(r) # {}) => pc[r] # "threw"

(* C8: when the engine answered and the only calls that failed are deletions *)
(* of scratch files, the user gets the transcription.                        *)
C8_UnlinkFailureHarmless ==
    \A r \in Slots :
        ( /\ IsPipeline(r)
          /\ Done(r)
          /\ whisperResponse[r] # NoResponse
          /\ \A i \in FailedCalls(r) : log[r][i].op = "unlinkSync" ) =>
            /\ statusMessage[r] # 0
            /\ Last(StatusHistory(r)) = CompleteText(ctx[r].kind, Parsed(r))

(* C9: two requests in flight at the same time never hold the same scratch   *)
(* path.                                                                     *)
C9_PathsDisjoint ==
    \A r \in InFlight, q \in InFlight : r # q => Paths(r) \cap Paths(q) = {}

(* C10: for a non-empty string s, the bare string s, an object whose text    *)
(* field is s, and an object whose only transcription field is result = s    *)
(* all give transcription s, in the three handlers.                          *)
C10_ThreeShapes ==
    \A r \in Slots :
        (IsPipeline(r) /\ transcription[r] # Undefined) =>
            LET data == whisperResponse[r] IN
            /\ (data.type = "string" /\ data.val # <<>>) => transcription[r] = data.val
            /\ (data.type = "object" /\ data.text \in Strings \ {<<>>}) =>
                    transcription[r] = data.text
            /\ (data.type = "object" /\ data.result \in Strings \ {<<>>}
                    /\ data.text = Undefined) =>
                    transcription[r] = data.result
            /\ Succeeded(r) =>
                    Last(StatusHistory(r)) = CompleteText(ctx[r].kind, transcription[r])

C10_Witness ==
    \E r \in Slots :
        /\ ctx[r].kind = "voice"
        /\ Succeeded(r)
        /\ whisperResponse[r].type = "object"
        /\ whisperResponse[r].text = Undefined
        /\ whisperResponse[r].result = <<"a">>
        /\ Last(StatusHistory(r)) = CompleteText("voice", <<"a">>)

(* C11: when the engine's answer is an object with neither a text nor a      *)
(* result field, the handler finishes without raising and the final status   *)
(* text reports the answer as unparseable.                                   *)
C11_UnparseableReported ==
    \A r \in Slots :
        ( /\ IsPipeline(r)
          /\ Succeeded(r)
          /\ whisperResponse[r].type = "object"
          /\ whisperResponse[r].text = Undefined
          /\ whisperResponse[r].result = Undefined ) =>
            Last(StatusHistory(r)) = CompleteText(ctx[r].kind, CouldNotParse)

\* the engine's answer carries an empty transcription and no other one
EmptyResult(data) ==
    \/ data.type = "string" /\ data.val = <<>>
    \/ /\ data.type = "object"
       /\ <<>> \in {data.text, data.result}
       /\ {data.text, data.result} \subseteq {<<>>, Undefined}

(* C12: an empty transcription, as a bare empty string or as an empty text   *)
(* or result field, ends in the fixed placeholder: not in an empty body, an  *)
(* error message or the unparseable message.                                 *)
C12_EmptyGivesPlaceholder ==
    \A r \in Slots :
        (IsPipeline(r) /\ transcription[r] # Undefined /\ EmptyResult(whisperResponse[r])) =>
            /\ transcription[r] = NoTranscription
            /\ Succeeded(r) =>
                    Last(StatusHistory(r)) = CompleteText(ctx[r].kind, NoTranscription)

\* ffmpeg was run for request r and failed
FfmpegFailed(r) == \E i \in CallsOf(r, "ffmpeg") : ~log[r][i].ok

(* C14: when ffmpeg fails (non-zero exit, or it cannot be run), the engine   *)
(* is never called for the request, the request ends with the error text in  *)
(* the status message, and when the handler returns neither the partial      *)
(* audio output nor the downloaded video is left on disk, unless the file    *)
(* system refused the unlink the catch block made for that file.             *)
C14_FfmpegFailureCleansUp ==
    \A r \in Slots :
        (IsPipeline(r) /\ FfmpegFailed(r)) =>
            /\ CallsOf(r, "post") = {}
            /\ Done(r) =>
                /\ pc[r] = "returned"
                /\ Last(log[r]).op = "editMessageText"
                /\ Last(log[r]).text = ErrorText(ctx[r].kind)
                /\ \A p \in {tempVideoPath[r], tempAudioPath[r]} :
                        \/ p \notin fs
                        \/ \E i \in CallsOf(r, "unlinkSync") :
                                log[r][i].text = p /\ ~log[r][i].ok

\* a failed ffmpeg run left a partial output, and the handler returned with both
\* files deleted
C14_Witness ==
    \E r \in Slots :
        /\ IsPipeline(r) /\ FfmpegFailed(r) /\ pc[r] = "returned"
        /\ created[r] = {tempVideoPath[r], tempAudioPath[r]}
        /\ fs = {}
        /\ \A i \in CallsOf(r, "unlinkSync") : log[r][i].ok

\* the call at position i of request r is a step that comes after the download:
\* the extracting edit, ffmpeg, the transcribing edit or the engine call
AfterDownload(r, i) ==
    \/ log[r][i].op \in {"ffmpeg", "post"}
    \/ /\ log[r][i].op = "editMessageText"
       /\ log[r][i].text \in {ExtractingText, TranscribingText(ctx[r].kind)}

\* the call at position i of request r belongs to the catch block
InCatch(r, i) ==
    \/ log[r][i].op = "unlinkSync"
    \/ log[r][i].op \in {"reply", "editMessageText"} /\ log[r][i].text = ErrorText(ctx[r].kind)

(* C15: the download is requested only after the status message was set to   *)
(* the downloading text; the extracting edit, ffmpeg, the transcribing edit  *)
(* and the engine call start only after the write stream of the scratch file *)
(* has finished; after a write error nothing but the catch block runs.       *)
C15_DownloadOrdered ==
    \A r \in Slots : IsPipeline(r) =>
        /\ \A i \in CallsOf(r, "download") :
                \E j \in 1..(i - 1) :
                    /\ log[r][j] = Entry("editMessageText", DownloadingText(ctx[r].kind), TRUE)
                    /\ PhaseOf(ctx[r].kind, Last(StatusHistory(r))) # "receiving"
        /\ \A i \in DOMAIN log[r] :
                AfterDownload(r, i) =>
                    \E j \in 1..(i - 1) : log[r][j].op = "write" /\ log[r][j].ok
        /\ \A j \in CallsOf(r, "write") :
                ~log[r][j].ok =>
                    /\ \A i \in (j + 1)..Len(log[r]) : InCatch(r, i)
                    /\ pc[r] \in {"voice_catch", "media_catch", "returned", "threw"}

\* a write error left a partial file and the request ended in the catch block
C15_Witness ==
    \E r \in Slots :
        /\ IsPipeline(r) /\ Done(r)
        /\ \E j \in CallsOf(r, "write") : ~log[r][j].ok /\ log[r][j].text \in created[r]
        /\ InCatch(r, Len(log[r]))

\* the stages of a request: file-link resolution, download with its write to disk,
\* ffmpeg and the engine call
StageOps == {"getFileLink", "download", "write", "ffmpeg", "post"}

(* C17: within one request each stage is attempted at most once, and after   *)
(* a stage has failed no stage is started for that request any more.         *)
C17_NoRetry ==
    \A r \in Slots : IsPipeline(r) =>
        /\ \A op \in StageOps : Cardinality(CallsOf(r, op)) <= 1
        /\ \A i \in DOMAIN log[r] :
                (log[r][i].op \in StageOps /\ ~log[r][i].ok) =>
                    \A j \in (i + 1)..Len(log[r]) : log[r][j].op \notin StageOps

\* a stage failed and the handler went on to its end without starting another
C17_Witness ==
    \E r \in Slots :
        /\ IsPipeline(r) /\ Done(r)
        /\ \E i \in DOMAIN log[r] :
                /\ log[r][i].op \in {"download", "post"} /\ ~log[r][i].ok
                /\ i < Len(log[r])

(* C16: every request that was started eventually finishes, also when the    *)
(* engine never answers the upload.                                          *)
C16_EventuallyFinishes == \A r \in Slots : (pc[r] = "gate") ~> Done(r)

\* s occurs in t as a run of consecutive tokens
Contains(t, s) ==
    \E k \in 0..(Len(t) - Len(s)) : \A i \in 1..Len(s) : t[k + i] = s[i]

\* the error the catch block of request r caught: the first call that failed
CaughtAt(r) == CHOOSE i \in FailedCalls(r) : \A j \in FailedCalls(r) : i <= j

\* positions of the notifications the catch block of request r got delivered
ErrorNotices(r) ==
    IF FailedCalls(r) = {} THEN {}
    ELSE {i \in DOMAIN log[r] : /\ i > CaughtAt(r)
                                /\ log[r][i].op \in {"reply", "editMessageText"}
                                /\ log[r][i].ok}

(* C18: the text the user gets on a pipeline failure is the apology for the  *)
(* attachment kind of the request followed by a snippet of the message of    *)
(* the error that was caught, its first 100 characters at most.              *)
C18_ErrorTextHasSnippet ==
    \A r \in Slots : IsPipeline(r) =>
        \A i \in ErrorNotices(r) :
            LET m == log[r][CaughtAt(r)].message IN
            /\ Contains(log[r][i].text, ErrorText(ctx[r].kind))
            /\ \E k \in 1..Len(m) : Contains(log[r][i].text, SubSeq(m, 1, k))

\* the tokens of a text
Tokens(t) == {t[i] : i \in DOMAIN t}

(* C19: the text the user gets after ffmpeg failed is the fixed apology of   *)
(* the attachment kind whatever ffmpeg's error carries: no part of the       *)
(* error's message (command line, scratch paths, stderr) is in any message   *)
(* sent or edited for the request.                                           *)
C19_FfmpegErrorNotShown ==
    \A r \in Slots : (IsPipeline(r) /\ FfmpegFailed(r)) =>
        LET m == log[r][CaughtAt(r)].message IN
        /\ log[r][CaughtAt(r)].op = "ffmpeg"
        /\ \A i \in ErrorNotices(r) : log[r][i].text = ErrorText(ctx[r].kind)
        /\ \A i \in DOMAIN sent[r] : \A j \in DOMAIN sent[r][i] :
                Tokens(sent[r][i][j]) \cap Tokens(m) = {}

\* ffmpeg failed writing the second output to stderr, and the status message shows
\* the apology
C19_Witness ==
    \E r \in Slots :
        /\ IsPipeline(r) /\ FfmpegFailed(r) /\ pc[r] = "returned"
        /\ Contains(log[r][CaughtAt(r)].message, FfmpegCommand(tempVideoPath[r], tempAudioPath[r]))
        /\ Last(log[r][CaughtAt(r)].message) = "y"
        /\ Last(StatusHistory(r)) = ErrorText(ctx[r].kind)

(* C13: no text the bot hands to reply or editMessageText is longer than     *)
(* 4096 characters, also when the engine's result has 5000 characters.       *)
C13_NoLongMessage ==
    \A r \in Slots : \A i \in DOMAIN log[r] :
        log[r][i].op \in {"reply", "editMessageText"} =>
            TextLen(log[r][i].text) <= MessageLimit

\* the update of request r carries audio: an audio message or an audio document
AudioShaped(r) ==
    \/ ctx[r].kind = "audio"
    \/ ctx[r].kind = "document" /\ Head(ctx[r].mime_type) = "audio"

VideoDocument(r) == ctx[r].kind = "document" /\ Head(ctx[r].mime_type) = "video"

(* C20: an audio message or a document from an authorized sender is          *)
(* handled: audio and audio documents go to the engine without ffmpeg, video *)
(* documents go to the engine after ffmpeg, and any other document gets one  *)
(* rejection message and creates no scratch file.                            *)
C20_AudioAndDocumentsHandled ==
    \A r \in Slots :
        ( /\ r \in Handled /\ Done(r)
          /\ ctx[r].hasFrom /\ Authorized(ctx[r])
          /\ ctx[r].kind \in {"audio", "document"} ) =>
            /\ log[r] # <<>>
            /\ AudioShaped(r) => CallsOf(r, "ffmpeg") = {}
            /\ VideoDocument(r) =>
                    \A i \in CallsOf(r, "post") :
                        \E j \in CallsOf(r, "ffmpeg") : j < i /\ log[r][j].ok
            /\ (~AudioShaped(r) /\ ~VideoDocument(r)) =>
                    /\ CallsOf(r, "reply") # {}
                    /\ log[r][1].op = "reply"
                    /\ CallsOf(r, "post") = {}
                    /\ created[r] = {}

\* the string the engine returned, in whichever of the three shapes
RawResult(data) ==
    IF data.type = "string" THEN data.val
    ELSE IF Truthy(data.text) THEN data.text
    ELSE data.result

(* C21: the transcription shown to the user has no leading or trailing       *)
(* whitespace: it is the engine's result with surrounding whitespace         *)
(* stripped.                                                                 *)
C21_ResultTrimmed ==
    \A r \in Slots :
        (IsPipeline(r) /\ Succeeded(r)) =>
            /\ transcription[r] = Trim(transcription[r])
            /\ Truthy(Trim(RawResult(whisperResponse[r]))) =>
                    Last(StatusHistory(r)) =
                        CompleteText(ctx[r].kind, Trim(RawResult(whisperResponse[r])))

(* C22: when the bot token or the engine URL is missing at startup, the      *)
(* process exits before the bot is launched: no update is received and no    *)
(* handler runs.                                                             *)
C22_NoStartWithoutConfig ==
    (~Truthy(token) \/ ~Truthy(whisperApiUrl)) =>
        /\ process # "running"
        /\ \A r \in Slots : pc[r] = "idle" /\ log[r] = <<>> /\ sent[r] = <<>>

\* the process has exited for the missing token alone
C22_Witness == process = "exited" /\ ~Truthy(token) /\ Truthy(whisperApiUrl)

\* positions of the rejected phase edits of request r: the downloading, extracting
\* or transcribing edit
RejectedPhaseEdits(r) ==
    {i \in CallsOf(r, "editMessageText") :
        /\ ~log[r][i].ok
        /\ PhaseOf(ctx[r].kind, log[r][i].text) \in {"downloading", "extracting", "transcribing"}}

(* C23: when the platform rejects the downloading, extracting or             *)
(* transcribing edit, no stage is started afterwards, and when the handler   *)
(* has finished the error notification was attempted and every scratch file *)
(* the request created is gone, unless the file system refused its unlink.   *)
C23_RejectedEditAborts ==
    \A r \in Slots : IsPipeline(r) =>
        \A i \in RejectedPhaseEdits(r) :
            /\ \A j \in (i + 1)..Len(log[r]) : log[r][j].op \notin StageOps
            /\ Done(r) =>
                /\ Last(log[r]).op \in {"reply", "editMessageText"}
                /\ Last(log[r]).text = ErrorText(ctx[r].kind)
                /\ \A p \in created[r] :
                        \/ p \notin fs
                        \/ \E j \in CallsOf(r, "unlinkSync") :
                                log[r][j].text = p /\ ~log[r][j].ok

\* positions of the attempts of request r to show the transcription
FinalEdits(r) ==
    {i \in CallsOf(r, "editMessageText") : PhaseOf(ctx[r].kind, log[r][i].text) = "done"}

\* positions of the successful unlinks of path p by request r
Unlinked(r, p) == {i \in CallsOf(r, "unlinkSync") : log[r][i].text = p /\ log[r][i].ok}

(* C24: in the video and video_note handlers, where the engine is called no  *)
(* file is unlinked before that call has settled; the audio and the video    *)
(* file have both been unlinked when the final edit is attempted, so that    *)
(* nothing is left on disk and nothing is unlinked after it, also when the   *)
(* edit fails; and no path is unlinked again once it has been deleted.       *)
C24_CleanupBeforeFinalEdit ==
    \A r \in Slots : (IsPipeline(r) /\ ctx[r].kind \in MediaKinds) =>
        /\ \A i \in CallsOf(r, "unlinkSync"), j \in CallsOf(r, "post") : j < i
        /\ \A k \in FinalEdits(r) :
                /\ \A p \in created[r] : \E i \in Unlinked(r, p) : i < k
                /\ Cardinality(created[r]) = 2
                /\ created[r] \cap fs = {}
                /\ \A i \in CallsOf(r, "unlinkSync") : i < k
        /\ \A p \in created[r] : \A i \in Unlinked(r, p) :
                \A j \in CallsOf(r, "unlinkSync") : j > i => log[r][j].text # p

\* the final edit of a video request was rejected and the handler returned: both files
\* were deleted once, before the edit
C24_Witness ==
    \E r \in Slots :
        /\ IsPipeline(r) /\ ctx[r].kind \in MediaKinds /\ Done(r)
        /\ \E k \in FinalEdits(r) : ~log[r][k].ok
        /\ Cardinality(CallsOf(r, "unlinkSync")) = 2
        /\ Cardinality(created[r]) = 2
        /\ fs = {}

\* the configured value as a string: an unset variable counts as the empty string
Configured == IF env.AUTHORIZED_USERS = Undefined THEN <<>> ELSE env.AUTHORIZED_USERS

\* the entries of a comma-separated value: each stretch between two commas (or an end
\* of the value) with its surrounding spaces removed, the empty ones left out
EntriesOf(v) ==
    { Trim(SubSeq(v, i, j)) :
        <<i, j>> \in { <<a, b>> \in (1..(Len(v) + 1)) \X (0..Len(v)) :
                        /\ b >= a - 1
                        /\ \A k \in a..b : v[k] # ","
                        /\ (a = 1 \/ v[a - 1] = ",")
                        /\ (b = Len(v) \/ v[b + 1] = ",") } } \ {<<>>}

(* C25: the allow-list holds the entries of the comma-separated value, each  *)
(* trimmed and the empty ones dropped: an unset or empty value, or one of    *)
(* commas and spaces only, gives the empty list and lets every sender pass,  *)
(* and an entry written with surrounding spaces admits the sender it admits  *)
(* without them.                                                             *)
C25_AllowListParsed ==
    process = "running" =>
        /\ {authorizedUsers[k] : k \in DOMAIN authorizedUsers} = EntriesOf(Configured)
        /\ (\A k \in DOMAIN Configured : Configured[k] \in {",", " "}) => authorizedUsers = <<>>
        /\ \A r \in Handled :
                ~Denied(r) <=>
                    \/ EntriesOf(Configured) = {}
                    \/ ctx[r].hasFrom /\ ToStringNat(ctx[r].from_id) \in EntriesOf(Configured)

\* a sender passed the gate on an entry that is written with a leading space
C25_Witness ==
    /\ process = "running"
    /\ Configured # <<>> /\ Head(Configured) = " "
    /\ \E r \in Handled :
            /\ ctx[r].hasFrom
            /\ authorizedUsers = <<ToStringNat(ctx[r].from_id)>>
            /\ pc[r] = "returned" /\ ~Denied(r) /\ log[r] # <<>>

====
